---- MODULE Spec2Model ----
(***************************************************************************)
(* A model of scanpy/get.py: the representation selector (_get_obs_rep,    *)
(* _set_obs_rep), the observation table assembler (obs_df), the feature    *)
(* table assembler (var_df) and the differential-expression reshaper       *)
(* (rank_genes_groups_df).                                                 *)
(*                                                                         *)
(* The module is synchronous and single threaded: every call is one atomic *)
(* action.  The state is the annotated matrix `adata`, the last call made  *)
(* `call` (its operation, its arguments and the container it was made on)  *)
(* and what that call produced `result` (a returned value or the exception *)
(* raised).                                                                *)
(*                                                                         *)
(* Arrays are modelled by their identity (a token) and a column of an      *)
(* array by the pair (array, position): the code only ever selects,        *)
(* reorders and copies whole columns.                                      *)
(***************************************************************************)
EXTENDS Integers, Sequences, FiniteSets, TLC

VARIABLES adata, call, result

vars == <<adata, call, result>>

-----------------------------------------------------------------------------
(* Bounds of the model *)

\* number of distinct arrays a caller may write with _set_obs_rep
NumArrays == 1

\* longest list of keys requested from obs_df
MaxKeys == 3

\* most metadata columns of adata.obs
MaxObsCols == 2

\* most features of adata and of adata.raw
MaxVars == 2

\* most features of a backed adata
MaxBackedVars == 3

\* longest list of (obsm key, column index) pairs requested from obs_df
MaxObsmKeys == 2

\* most observations of the adata handed to var_df
MaxObs == 2

\* number of ranked features each group of a rank_genes_groups result holds
NumRanks == 2

-----------------------------------------------------------------------------
(* Python values *)

\* Python's None for the optional string arguments (no name below is "None")
None == "None"

\* A Python value passed as use_raw: its type and its truth value.
PyTrue == [type |-> "bool", truthy |-> TRUE]
PyFalse == [type |-> "bool", truthy |-> FALSE]
PyNone == [type |-> "NoneType", truthy |-> FALSE]
PyZero == [type |-> "int", truthy |-> FALSE]
PyOne == [type |-> "int", truthy |-> TRUE]

UseRawValues == {PyTrue, PyFalse, PyNone, PyZero, PyOne}

\* isinstance(v, bool)
IsInstanceBool(v) == v.type = "bool"

\* `v is not False`
IsNotFalse(v) == v # PyFalse

\* outcomes of a call
Return(v) == [kind |-> "return", value |-> v]
Raise(e) == [kind |-> "raise", error |-> e]

Returned(r) == r.kind = "return"
Raised(r, e) == r.kind = "raise" /\ r.error = e

\* sum((is_layer, is_raw, is_obsm, is_obsp))
BoolSum(bs) == Cardinality({i \in DOMAIN bs : bs[i]})

\* A Python dict is a function on the names a caller may use, Missing where
\* the dict has no entry: d[k] raises KeyError when k is absent
Missing == "Missing"
HasKey(d, k) == d[k] # Missing

\* d[k] = v of a Python dict: replaces the entry or creates it
DictSet(d, k, v) == [d EXCEPT ![k] = v]

-----------------------------------------------------------------------------
(* Sequences, as numpy and pandas use them *)

\* the elements of a sequence
Range(s) == {s[i] : i \in 1 .. Len(s)}

\* the sequences over S of length n
RECURSIVE SeqsOfLen(_, _)
SeqsOfLen(S, n) ==
    IF n = 0 THEN {<< >>}
    ELSE {Append(s, x) : s \in SeqsOfLen(S, n - 1), x \in S}

\* the sequences over S of length lo .. hi
SeqsBetween(S, lo, hi) == UNION {SeqsOfLen(S, n) : n \in lo .. hi}

\* Index.is_unique
IsUnique(index) ==
    \A i, j \in 1 .. Len(index) : index[i] = index[j] => i = j

\* the 0-based positions of key in index
PositionsOf(index, key) == {i - 1 : i \in {j \in 1 .. Len(index) : index[j] = key}}

\* seq[idx] with a list of 0-based positions (numpy fancy indexing)
RECURSIVE Take(_, _)
Take(seq, idx) ==
    IF idx = << >> THEN << >>
    ELSE <<seq[Head(idx) + 1]>> \o Take(seq, Tail(idx))

\* the order in which strings sort
NameOrder == <<"X_pca-0", "a", "b", "c", "o">>

\* np.unique(keys): the distinct keys, sorted
\* the keys as requested, repeats and order kept
NpUniqueKeepRepeats(keys) == keys

NpUnique(keys) == SelectSeq(NameOrder, LAMBDA n : n \in Range(keys))

\* np.argsort(v): the 0-based positions of v's elements in ascending order
\* (equal elements in the order they stand)
RECURSIVE ArgSortFrom(_, _)
ArgSortFrom(v, left) ==
    IF left = {} THEN << >>
    ELSE LET m == CHOOSE i \in left :
                    \A j \in left : v[i] < v[j] \/ (v[i] = v[j] /\ i <= j)
         IN  <<m - 1>> \o ArgSortFrom(v, left \ {m})

ArgSort(v) == ArgSortFrom(v, 1 .. Len(v))

-----------------------------------------------------------------------------
(* The representation selector *)

\* _get_obs_rep without the isinstance check of its first statement
GetObsRepUnchecked(ad, use_raw, layer, obsm, obsp) ==
    LET is_layer == layer # None
        is_raw == IsNotFalse(use_raw)
        is_obsm == obsm # None
        is_obsp == obsp # None
        choices_made == BoolSum(<<is_layer, is_raw, is_obsm, is_obsp>>)
    IN  IF ~(choices_made <= 1) THEN Raise("AssertionError")
        ELSE IF choices_made = 0 THEN Return(ad.X)
        ELSE IF is_layer THEN
            IF HasKey(ad.layers, layer) THEN Return(ad.layers[layer])
            ELSE Raise("KeyError")
        ELSE IF use_raw.truthy THEN Return(ad.raw_X)
        ELSE IF is_obsm THEN
            IF HasKey(ad.obsm, obsm) THEN Return(ad.obsm[obsm])
            ELSE Raise("KeyError")
        ELSE IF is_obsp THEN
            IF HasKey(ad.obsp, obsp) THEN Return(ad.obsp[obsp])
            ELSE Raise("KeyError")
        ELSE Raise("AssertionError")

\* _get_obs_rep(adata, use_raw=, layer=, obsm=, obsp=): the array chosen
GetObsRep(ad, use_raw, layer, obsm, obsp) ==
    IF ~IsInstanceBool(use_raw) THEN Raise("TypeError")
    ELSE LET is_layer == layer # None
             is_raw == IsNotFalse(use_raw)
             is_obsm == obsm # None
             is_obsp == obsp # None
             choices_made == BoolSum(<<is_layer, is_raw, is_obsm, is_obsp>>)
         IN  IF ~(choices_made <= 1) THEN Raise("AssertionError")
             ELSE IF choices_made = 0 THEN Return(ad.X)
             ELSE IF is_layer THEN
                 IF HasKey(ad.layers, layer) THEN Return(ad.layers[layer])
                 ELSE Raise("KeyError")
             ELSE IF use_raw.truthy THEN Return(ad.raw_X)
             ELSE IF is_obsm THEN
                 IF HasKey(ad.obsm, obsm) THEN Return(ad.obsm[obsm])
                 ELSE Raise("KeyError")
             ELSE IF is_obsp THEN
                 IF HasKey(ad.obsp, obsp) THEN Return(ad.obsp[obsp])
                 ELSE Raise("KeyError")
             ELSE Raise("AssertionError")

\* _set_obs_rep(adata, val, use_raw=, layer=, obsm=, obsp=): the outcome and
\* the container after the call
SetObsRep(ad, val, use_raw, layer, obsm, obsp) ==
    LET is_layer == layer # None
        is_raw == IsNotFalse(use_raw)
        is_obsm == obsm # None
        is_obsp == obsp # None
        choices_made == BoolSum(<<is_layer, is_raw, is_obsm, is_obsp>>)
        ok(a) == [outcome |-> Return(None), adata |-> a]
        fail(e) == [outcome |-> Raise(e), adata |-> ad]
    IN  IF ~(choices_made <= 1) THEN fail("AssertionError")
        ELSE IF choices_made = 0 THEN ok([ad EXCEPT !.X = val])
        ELSE IF is_layer THEN
            ok([ad EXCEPT !.layers = DictSet(ad.layers, layer, val)])
        ELSE IF use_raw.truthy THEN ok([ad EXCEPT !.raw_X = val])
        ELSE IF is_obsm THEN
            ok([ad EXCEPT !.obsm = DictSet(ad.obsm, obsm, val)])
        ELSE IF is_obsp THEN
            ok([ad EXCEPT !.obsp = DictSet(ad.obsp, obsp, val)])
        ELSE fail("AssertionError")

\* names a caller may pass as layer, obsm and obsp
LayerArgs == {None, "counts"}
ObsmArgs == {None, "X_pca"}
ObspArgs == {None, "distances"}

\* the arrays a caller may write: array 0 is the one present at the start
Array(i) == "array" \o ToString(i)
Arrays == {Array(i) : i \in 0 .. NumArrays}

\* the container of the selector's specification: X, raw.X and one obsm
\* block exist, no layer and no obsp block has been stored yet
RepAdata ==
    [X |-> Array(0), raw_X |-> Array(0),
     layers |-> [k \in LayerArgs \ {None} |-> Missing],
     obsm |-> [k \in ObsmArgs \ {None} |-> Array(0)],
     obsp |-> [k \in ObspArgs \ {None} |-> Missing]]

RepInit ==
    /\ adata = RepAdata
    /\ call = [op |-> "none", use_raw |-> PyFalse, layer |-> None,
               obsm |-> None, obsp |-> None, val |-> Array(0), before |-> RepAdata]
    /\ result = Return(None)

\* a call of _get_obs_rep
GetObsRepCall ==
    \E use_raw \in UseRawValues, layer \in LayerArgs, obsm \in ObsmArgs,
       obsp \in ObspArgs :
        /\ call' = [op |-> "_get_obs_rep", use_raw |-> use_raw, layer |-> layer,
                    obsm |-> obsm, obsp |-> obsp, val |-> Array(0), before |-> adata]
        /\ result' = GetObsRep(adata, use_raw, layer, obsm, obsp)
        /\ UNCHANGED adata

\* a call of _set_obs_rep
SetObsRepCall ==
    \E val \in Arrays, use_raw \in UseRawValues, layer \in LayerArgs,
       obsm \in ObsmArgs, obsp \in ObspArgs :
        LET r == SetObsRep(adata, val, use_raw, layer, obsm, obsp)
        IN  /\ call' = [op |-> "_set_obs_rep", use_raw |-> use_raw,
                        layer |-> layer, obsm |-> obsm, obsp |-> obsp,
                        val |-> val, before |-> adata]
            /\ result' = r.outcome
            /\ adata' = r.adata

RepNext == GetObsRepCall \/ SetObsRepCall

SpecRep == RepInit /\ [][RepNext]_vars

-----------------------------------------------------------------------------
(* obs_df: the observation table assembler *)

\* A table is the sequence of its columns; a column is its label and its
\* values, the values being column `pos` of the array or table `src`.
Column(label, src, pos) == [label |-> label, src |-> src, pos |-> pos]

Labels(df) == IF df = << >> THEN << >> ELSE [i \in 1 .. Len(df) |-> df[i].label]

\* X[:, idx]: the columns of array X at the 0-based positions idx, unlabelled
RECURSIVE IndexColumns(_, _)
IndexColumns(X, idx) ==
    IF idx = << >> THEN << >>
    ELSE <<Column("", X, Head(idx))>> \o IndexColumns(X, Tail(idx))

\* pd.DataFrame(matrix, columns=labels)
RECURSIVE WithLabels(_, _)
WithLabels(matrix, labels) ==
    IF matrix = << >> THEN << >>
    ELSE <<[Head(matrix) EXCEPT !.label = Head(labels)]>>
            \o WithLabels(Tail(matrix), Tail(labels))

\* table[names] with a list of labels: for each name in turn every column of
\* the table that carries it
RECURSIVE SelectColumns(_, _)
\* the table as concatenated, without the final selection by the keys
SelectColumnsAsConcatenated(df, names) == df

SelectColumns(df, names) ==
    IF names = << >> THEN << >>
    ELSE SelectSeq(df, LAMBDA c : c.label = Head(names))
            \o SelectColumns(df, Tail(names))

\* adata.obs[names]: the metadata columns with these labels
ObsTable(ad) ==
    IF ad.obs_columns = << >> THEN << >>
    ELSE [i \in 1 .. Len(ad.obs_columns) |->
            Column(ad.obs_columns[i], "obs", i - 1)]

\* df[label] = values: overwrites the columns labelled so, or appends one
SetColumn(df, label, src, pos) ==
    IF \E i \in 1 .. Len(df) : df[i].label = label
    THEN [i \in 1 .. Len(df) |->
            IF df[i].label = label THEN Column(label, src, pos) ELSE df[i]]
    ELSE Append(df, Column(label, src, pos))

\* Index.get_indexer(names): the 0-based position of each name, -1 for a name
\* the index lacks (the index is unique where this is used)
RECURSIVE GetIndexer(_, _)
GetIndexer(index, names) ==
    IF names = << >> THEN << >>
    ELSE LET at == PositionsOf(index, Head(names))
         IN  <<IF at = {} THEN -1 ELSE CHOOSE i \in at : TRUE>>
                \o GetIndexer(index, Tail(names))

\* the var_names and the alias column adata.var[gene_symbols] of a feature axis
VarNames(var) == IF var = << >> THEN << >> ELSE [i \in 1 .. Len(var) |-> var[i].name]
VarSymbols(var) == IF var = << >> THEN << >> ELSE [i \in 1 .. Len(var) |-> var[i].sym]

\* X[:, var_idx[var_order]][:, np.argsort(var_order)] without the second
\* argsort: the block is put back with var_order itself
BackedColumnsUnsortedByOrder(X, var_idx) ==
    LET var_order == ArgSort(var_idx)
    IN  Take(IndexColumns(X, Take(var_idx, var_order)), var_order)

\* X[:, var_idx[var_order]][:, np.argsort(var_order)] of a backed container
BackedColumns(X, var_idx) ==
    LET var_order == ArgSort(var_idx)
    IN  Take(IndexColumns(X, Take(var_idx, var_order)), ArgSort(var_order))

\* what an obs_df call produces
ObsReturn(df, var_idx, fetched, matrix) ==
    [kind |-> "return", error |-> "", what |-> "", keys |-> << >>,
     searched |-> "", df |-> df,
     var_idx |-> var_idx, fetched |-> fetched, matrix |-> matrix]
ObsRaise(error, what, keys) ==
    [kind |-> "raise", error |-> error, what |-> what, keys |-> keys,
     searched |-> "", df |-> << >>, var_idx |-> << >>, fetched |-> << >>, matrix |-> << >>]

\* key resolution that prefers the obs column when a key is also found in the
\* feature namespace
RECURSIVE ResolveKeysObsFirst(_, _, _, _, _, _)
ResolveKeysObsFirst(ukeys, obs_columns, gene_index, gene_values, gene_symbols, acc) ==
    IF ukeys = << >> THEN acc
    ELSE LET key == Head(ukeys)
             at == PositionsOf(gene_index, key)
             next(a) == ResolveKeysObsFirst(Tail(ukeys), obs_columns, gene_index,
                                           gene_values, gene_symbols, a)
         IN  IF key \in Range(obs_columns) THEN
                 next([acc EXCEPT !.obs_names = Append(@, key)])
             ELSE IF at # {} THEN
                 IF Cardinality(at) > 1 THEN
                     IF gene_symbols = None
                     THEN [acc EXCEPT !.error = ObsRaise("AssertionError", "", << >>)]
                     ELSE [acc EXCEPT !.error =
                              ObsRaise("KeyError", "duplicate alias", <<key>>)]
                 ELSE next([acc EXCEPT
                              !.var_names = Append(@, gene_values[(CHOOSE i \in at : TRUE) + 1]),
                              !.var_symbol = Append(@, key)])
             ELSE next([acc EXCEPT !.not_found = Append(@, key)])

\* the loop over np.unique(keys): the lists it fills, and the error it raised
RECURSIVE ResolveKeys(_, _, _, _, _, _)
ResolveKeys(ukeys, obs_columns, gene_index, gene_values, gene_symbols, acc) ==
    IF ukeys = << >> THEN acc
    ELSE LET key == Head(ukeys)
             at == PositionsOf(gene_index, key)
             next(a) == ResolveKeys(Tail(ukeys), obs_columns, gene_index,
                                    gene_values, gene_symbols, a)
         IN  IF key \in Range(obs_columns) THEN
                 IF at # {} THEN
                     [acc EXCEPT !.error = ObsRaise("KeyError", "ambiguous", <<key>>)]
                 ELSE next([acc EXCEPT !.obs_names = Append(@, key)])
             ELSE IF at # {} THEN
                 IF Cardinality(at) > 1 THEN
                     IF gene_symbols = None
                     THEN [acc EXCEPT !.error = ObsRaise("AssertionError", "", << >>)]
                     ELSE [acc EXCEPT !.error =
                              ObsRaise("KeyError", "duplicate alias", <<key>>)]
                 ELSE next([acc EXCEPT
                              !.var_names = Append(@, gene_values[(CHOOSE i \in at : TRUE) + 1]),
                              !.var_symbol = Append(@, key)])
             ELSE next([acc EXCEPT !.not_found = Append(@, key)])

\* the text naming the feature namespace searched in the not-found error
GeneError(use_raw, gene_symbols) ==
    IF use_raw.truthy
    THEN IF gene_symbols = None THEN "adata.raw.var_names"
         ELSE "adata.raw.var[gene_symbols]"
    ELSE IF gene_symbols = None THEN "adata.var_names"
         ELSE "adata.var[gene_symbols]"

\* the loop over obsm_keys
RECURSIVE AddObsm(_, _, _)
AddObsm(ad, df, obsm_keys) ==
    IF obsm_keys = << >> THEN df
    ELSE LET k == Head(obsm_keys)[1]
             idx == Head(obsm_keys)[2]
             added_k == k \o "-" \o ToString(idx)
             val == ad.obsm[k]
         IN  AddObsm(ad,
                     IF ad.obsm_type[k] \in {"ndarray", "spmatrix", "DataFrame"}
                     THEN SetColumn(df, added_k, val, idx)
                     ELSE df,
                     Tail(obsm_keys))

\* obs_df(adata, keys, obsm_keys, layer=, gene_symbols=, use_raw=)
ObsDf(ad, keys, obsm_keys, layer, gene_symbols, use_raw) ==
    LET used_var == IF use_raw.truthy THEN ad.raw_var ELSE ad.var
        gene_values == VarNames(used_var)
        gene_index == IF gene_symbols # None THEN VarSymbols(used_var)
                      ELSE VarNames(used_var)
        r == ResolveKeys(NpUnique(keys), ad.obs_columns, gene_index, gene_values,
                         gene_symbols,
                         [obs_names |-> << >>, var_names |-> << >>,
                          var_symbol |-> << >>, not_found |-> << >>,
                          error |-> ObsReturn(<< >>, << >>, << >>, << >>)])
        X == GetObsRep(ad, use_raw, layer, None, None)
        var_index == IF use_raw.truthy THEN VarNames(ad.raw_var) ELSE VarNames(ad.var)
        var_idx == GetIndexer(var_index, r.var_names)
        var_order == ArgSort(var_idx)
        fetched == IF ad.isbacked THEN Take(var_idx, var_order) ELSE var_idx
        matrix == IF ad.isbacked THEN BackedColumns(X.value, var_idx)
                  ELSE IndexColumns(X.value, var_idx)
        df1 == IF Len(r.var_names) > 0 THEN WithLabels(matrix, r.var_symbol)
               ELSE << >>
        df2 == IF Len(r.obs_names) > 0
               THEN df1 \o SelectColumns(ObsTable(ad), r.obs_names)
               ELSE df1
        df3 == SelectColumns(df2, keys)
    IN  IF use_raw.truthy /\ layer # None THEN ObsRaise("AssertionError", "", << >>)
        ELSE IF ~IsUnique(ad.obs_columns)
            THEN ObsRaise("ValueError", "duplicated obs columns", << >>)
        ELSE IF ~IsUnique(VarNames(ad.var))
            THEN ObsRaise("ValueError", "duplicated var names", << >>)
        ELSE IF r.error.kind = "raise" THEN r.error
        ELSE IF Len(r.not_found) > 0
            THEN [ObsRaise("KeyError", "not found", r.not_found)
                    EXCEPT !.searched = GeneError(use_raw, gene_symbols)]
        ELSE IF Len(r.var_names) > 0 /\ ~Returned(X)
            THEN ObsRaise(X.error, "", << >>)
        ELSE IF Len(r.var_names) > 0 /\ ~IsUnique(var_index)
            THEN ObsRaise("InvalidIndexError", "", << >>)
        ELSE ObsReturn(AddObsm(ad, df3, obsm_keys),
                       IF Len(r.var_names) > 0 THEN var_idx ELSE << >>,
                       IF Len(r.var_names) > 0 THEN fetched ELSE << >>,
                       IF Len(r.var_names) > 0 THEN matrix ELSE << >>)

-----------------------------------------------------------------------------
(* The specification of obs_df calls without obsm_keys *)

\* the keys a caller may request
KeyNames == {"a", "b", "c"}

\* the labels a column of adata.obs may carry
ObsColNames == {"a", "b"}

\* the features adata may hold: a var name and its entry in the alias column
Features ==
    {[name |-> "a", sym |-> "b"], [name |-> "c", sym |-> "b"],
     [name |-> "a", sym |-> "c"]}

\* the features adata.raw may hold
RawFeatures == {[name |-> "a", sym |-> "b"], [name |-> "c", sym |-> "c"]}

\* the only column of adata.var, the alias column
GeneSymbolArgs == {None, "symbol"}

\* the arrays of an annotated matrix handed to obs_df
ObsAdata(obs_columns, var, raw_var, isbacked) ==
    [obs_columns |-> obs_columns, var |-> var, raw_var |-> raw_var,
     isbacked |-> isbacked,
     X |-> "X", raw_X |-> "raw.X",
     layers |-> [k \in LayerArgs \ {None} |-> "layers[counts]"],
     obsm |-> [k \in ObsmArgs \ {None} |-> "obsm[X_pca]"],
     obsm_type |-> [k \in ObsmArgs \ {None} |-> "ndarray"],
     obsp |-> [k \in ObspArgs \ {None} |-> Missing]]

ObsCall(op, keys, obsm_keys, layer, gene_symbols, use_raw) ==
    [op |-> op, keys |-> keys, obsm_keys |-> obsm_keys, layer |-> layer,
     gene_symbols |-> gene_symbols, use_raw |-> use_raw]

ObsInit ==
    /\ \E obs_columns \in SeqsBetween(ObsColNames, 0, MaxObsCols),
          var \in SeqsBetween(Features, 1, MaxVars),
          raw_var \in SeqsBetween(RawFeatures, 1, MaxVars),
          isbacked \in BOOLEAN :
            adata = ObsAdata(obs_columns, var, raw_var, isbacked)
    /\ call = ObsCall("none", << >>, << >>, None, None, PyFalse)
    /\ result = ObsReturn(<< >>, << >>, << >>, << >>)

\* a call of obs_df with keys only, on a container not yet queried
ObsDfCall ==
    \E keys \in SeqsBetween(KeyNames, 0, MaxKeys), layer \in LayerArgs,
       gene_symbols \in GeneSymbolArgs, use_raw \in {PyTrue, PyFalse} :
        /\ call.op = "none"
        /\ call' = ObsCall("obs_df", keys, << >>, layer, gene_symbols, use_raw)
        /\ result' = ObsDf(adata, keys, << >>, layer, gene_symbols, use_raw)
        /\ UNCHANGED adata

ObsNext == ObsDfCall

SpecObs == ObsInit /\ [][ObsNext]_vars

-----------------------------------------------------------------------------
(* The specification of obs_df calls on backed containers *)

\* the features of a backed adata: its raw matrix holds the same features
BackedFeatures ==
    {[name |-> "a", sym |-> "c"], [name |-> "b", sym |-> "a"],
     [name |-> "c", sym |-> "b"]}

BackedInit ==
    /\ \E var \in SeqsBetween(BackedFeatures, 1, MaxBackedVars),
          isbacked \in BOOLEAN :
            adata = ObsAdata(<< >>, var, var, isbacked)
    /\ call = ObsCall("none", << >>, << >>, None, None, PyFalse)
    /\ result = ObsReturn(<< >>, << >>, << >>, << >>)

SpecBacked == BackedInit /\ [][ObsNext]_vars

-----------------------------------------------------------------------------
(* The specification of obs_df calls with obsm_keys *)

\* the column indexes a caller may ask of an obsm block
ObsmIndexes == {0, 1}

\* the (obsm key, column index) pairs a caller may pass
ObsmPairs == {<<k, idx>> : k \in ObsmArgs \ {None}, idx \in ObsmIndexes}

\* the kinds of block adata.obsm may hold
ObsmTypes == {"ndarray", "spmatrix", "DataFrame"}

ObsmInit ==
    /\ \E obs_columns \in SeqsBetween({"a", "X_pca-0"}, 0, MaxObsCols),
          type \in ObsmTypes :
            adata = [ObsAdata(obs_columns, <<[name |-> "c", sym |-> "c"]>>,
                              <<[name |-> "c", sym |-> "c"]>>, FALSE)
                        EXCEPT !.obsm_type = [k \in ObsmArgs \ {None} |-> type]]
    /\ call = ObsCall("none", << >>, << >>, None, None, PyFalse)
    /\ result = ObsReturn(<< >>, << >>, << >>, << >>)

\* a call of obs_df with keys and obsm_keys, on a container not yet queried
ObsDfObsmCall ==
    \E keys \in SeqsBetween({"a", "c", "X_pca-0"}, 0, MaxKeys),
       obsm_keys \in SeqsBetween(ObsmPairs, 0, MaxObsmKeys) :
        /\ call.op = "none"
        /\ call' = ObsCall("obs_df", keys, obsm_keys, None, None, PyFalse)
        /\ result' = ObsDf(adata, keys, obsm_keys, None, None, PyFalse)
        /\ UNCHANGED adata

ObsmNext == ObsDfObsmCall

SpecObsm == ObsmInit /\ [][ObsmNext]_vars

-----------------------------------------------------------------------------
(* var_df: the feature table assembler *)

\* the loop over np.unique(keys) of var_df: the lists it fills
RECURSIVE ResolveVarKeys(_, _, _, _)
ResolveVarKeys(ukeys, obs_names_index, var_columns, acc) ==
    IF ukeys = << >> THEN acc
    ELSE LET key == Head(ukeys)
             next(a) == ResolveVarKeys(Tail(ukeys), obs_names_index, var_columns, a)
         IN  IF key \in Range(obs_names_index)
             THEN next([acc EXCEPT !.obs_names = Append(@, key)])
             ELSE IF key \in Range(var_columns)
             THEN next([acc EXCEPT !.var_names = Append(@, key)])
             ELSE next([acc EXCEPT !.not_found = Append(@, key)])

\* adata.var as a table: its metadata columns
VarTable(ad) ==
    IF ad.var_columns = << >> THEN << >>
    ELSE [i \in 1 .. Len(ad.var_columns) |->
            Column(ad.var_columns[i], "var", i - 1)]

\* the loop over varm_keys
RECURSIVE AddVarm(_, _, _)
AddVarm(ad, df, varm_keys) ==
    IF varm_keys = << >> THEN df
    ELSE LET k == Head(varm_keys)[1]
             idx == Head(varm_keys)[2]
             added_k == k \o "-" \o ToString(idx)
             val == ad.varm[k]
         IN  AddVarm(ad,
                     IF ad.varm_type[k] \in {"ndarray", "spmatrix", "DataFrame"}
                     THEN SetColumn(df, added_k, val, idx)
                     ELSE df,
                     Tail(varm_keys))

\* var_df(adata, keys, varm_keys, layer=): a row of X, transposed, is a
\* column of the table
VarDf(ad, keys, varm_keys, layer) ==
    LET r == ResolveVarKeys(NpUnique(keys), ad.obs_names, ad.var_columns,
                            [obs_names |-> << >>, var_names |-> << >>,
                             not_found |-> << >>])
        X == GetObsRep(ad, PyFalse, layer, None, None)
        obs_idx == GetIndexer(ad.obs_names, r.obs_names)
        matrix == IF ad.isbacked THEN BackedColumns(X.value, obs_idx)
                  ELSE IndexColumns(X.value, obs_idx)
        df1 == IF Len(r.obs_names) > 0 THEN WithLabels(matrix, r.obs_names)
               ELSE << >>
        df2 == IF Len(r.var_names) > 0
               THEN df1 \o SelectColumns(VarTable(ad), r.var_names)
               ELSE df1
        df3 == SelectColumns(df2, keys)
    IN  IF Len(r.not_found) > 0
            THEN [ObsRaise("KeyError", "not found", r.not_found)
                    EXCEPT !.searched = "adata.var or adata.obs_names"]
        ELSE IF Len(r.obs_names) > 0 /\ ~Returned(X)
            THEN ObsRaise(X.error, "", << >>)
        ELSE IF Len(r.obs_names) > 0 /\ ~IsUnique(ad.obs_names)
            THEN ObsRaise("InvalidIndexError", "", << >>)
        ELSE ObsReturn(AddVarm(ad, df3, varm_keys),
                       IF Len(r.obs_names) > 0 THEN obs_idx ELSE << >>,
                       << >>,
                       IF Len(r.obs_names) > 0 THEN matrix ELSE << >>)

\* the observation names and the labels of adata.var's columns
ObsNameSet == {"a", "o"}
VarColNames == {"a", "c"}

\* the (varm key, column index) pairs a caller may pass
VarmPairs == {<<"PCs", 0>>}

VarCall(op, keys, varm_keys, layer) ==
    [op |-> op, keys |-> keys, varm_keys |-> varm_keys, layer |-> layer]

VarInit ==
    /\ \E obs_names \in SeqsBetween(ObsNameSet, 1, MaxObs),
          var_columns \in SeqsBetween(VarColNames, 0, MaxObsCols),
          isbacked \in BOOLEAN :
            adata = [obs_names |-> obs_names, var_columns |-> var_columns,
                     isbacked |-> isbacked,
                     X |-> "X", raw_X |-> "raw.X",
                     layers |-> [k \in LayerArgs \ {None} |-> "layers[counts]"],
                     obsm |-> [k \in ObsmArgs \ {None} |-> "obsm[X_pca]"],
                     obsp |-> [k \in ObspArgs \ {None} |-> Missing],
                     varm |-> [k \in {"PCs"} |-> "varm[PCs]"],
                     varm_type |-> [k \in {"PCs"} |-> "ndarray"]]
    /\ call = VarCall("none", << >>, << >>, None)
    /\ result = ObsReturn(<< >>, << >>, << >>, << >>)

\* a call of var_df, on a container not yet queried
VarDfCall ==
    \E keys \in SeqsBetween(ObsNameSet \cup VarColNames, 0, MaxKeys),
       varm_keys \in SeqsBetween(VarmPairs, 0, 1), layer \in LayerArgs :
        /\ call.op = "none"
        /\ call' = VarCall("var_df", keys, varm_keys, layer)
        /\ result' = VarDf(adata, keys, varm_keys, layer)
        /\ UNCHANGED adata

VarNext == VarDfCall

SpecVar == VarInit /\ [][VarNext]_vars

-----------------------------------------------------------------------------
(* rank_genes_groups_df: the differential-expression reshaper *)

\* the groups of the stored result, in the order of its dtype.names
StoredGroups == <<"A", "B">>

\* the features ranked: one per rank
Genes == {"g" \o ToString(i) : i \in 1 .. NumRanks}

\* a row of the long table; level_0 is the row's position in the stored
\* arrays (its rank), which the code drops from the columns after sorting
Row(level_0, group, names, logfoldchanges, pvals_adj) ==
    [level_0 |-> level_0, group |-> group, names |-> names,
     logfoldchanges |-> logfoldchanges, pvals_adj |-> pvals_adj,
     symbol |-> "", pct_nz_group |-> "", pct_nz_reference |-> ""]

\* d.stack(level=1).reset_index(): one row per (position, group), the groups
\* of one position side by side
RECURSIVE StackGroups(_, _, _)
StackGroups(store, level_0, groups) ==
    IF groups = << >> THEN << >>
    ELSE LET g == Head(groups)
         IN  <<Row(level_0, g, store.names[g][level_0 + 1],
                   store.logfoldchanges[g][level_0 + 1],
                   store.pvals_adj[g][level_0 + 1])>>
                \o StackGroups(store, level_0, Tail(groups))

RECURSIVE Stack(_, _, _)
Stack(store, level_0, groups) ==
    IF level_0 >= NumRanks THEN << >>
    ELSE StackGroups(store, level_0, groups) \o Stack(store, level_0 + 1, groups)

\* the code of a group in pd.Categorical(d['group'], categories=group)
CategoryCode(group, g) == CHOOSE i \in 1 .. Len(group) : group[i] = g

\* the table left in the order stack produced
StackOrder(d, group) == d

\* d.sort_values(['group', 'level_0']) with the categorical group column
SortValues(d, group) ==
    IF d = << >> THEN << >>
    ELSE Take(d, ArgSort([i \in 1 .. Len(d) |->
                CategoryCode(group, d[i].group) * NumRanks + d[i].level_0]))

\* d.join(adata.var[gene_symbols], on="names"): a left join, one row per
\* matching feature of adata.var and one row without a symbol if none matches
RECURSIVE JoinSymbols(_, _)
JoinSymbols(d, var) ==
    IF d = << >> THEN << >>
    ELSE LET row == Head(d)
             hits == SelectSeq(var, LAMBDA v : v.name = row.names)
         IN  (IF hits = << >> THEN <<[row EXCEPT !.symbol = "NaN"]>>
              ELSE [i \in 1 .. Len(hits) |-> [row EXCEPT !.symbol = hits[i].sym]])
                \o JoinSymbols(Tail(d), var)

\* d.merge(pts_df): an inner join on (names, group) keeping the left rows'
\* order; pts_index holds the features the statistics table has a row for
RECURSIVE MergePts(_, _, _)
MergePts(d, pts_index, name) ==
    IF d = << >> THEN << >>
    ELSE LET row == Head(d)
             hits == SelectSeq(pts_index, LAMBDA n : n = row.names)
         IN  (IF hits = << >> THEN << >>
              ELSE [i \in 1 .. Len(hits) |->
                      IF name = "pct_nz_group"
                      THEN [row EXCEPT !.pct_nz_group = "pts"]
                      ELSE [row EXCEPT !.pct_nz_reference = "pts_rest"]])
                \o MergePts(Tail(d), pts_index, name)

\* what a rank_genes_groups_df call produces: the rows of the table and
\* whether it has a "group" column
RankReturn(has_group, rows) ==
    [kind |-> "return", error |-> "", has_group |-> has_group, rows |-> rows]
RankRaise(error) ==
    [kind |-> "raise", error |-> error, has_group |-> FALSE, rows |-> << >>]

\* rank_genes_groups_df(adata, group, pval_cutoff=, log2fc_min=, log2fc_max=,
\* gene_symbols=); cutoffs are None or a number, given as [given, value]
RankGenesGroupsDf(ad, group_arg, pval_cutoff, log2fc_min, log2fc_max, gene_symbols) ==
    LET store == ad.uns
        group == IF group_arg.type = "str" THEN <<group_arg.value[1]>>
                 ELSE IF group_arg.type = "NoneType" THEN StoredGroups
                 ELSE group_arg.value
        d0 == SortValues(Stack(store, 0, group), group)
        d1 == IF pval_cutoff.given
              THEN SelectSeq(d0, LAMBDA r : r.pvals_adj < pval_cutoff.value)
              ELSE d0
        d2 == IF log2fc_min.given
              THEN SelectSeq(d1, LAMBDA r : r.logfoldchanges > log2fc_min.value)
              ELSE d1
        d3 == IF log2fc_max.given
              THEN SelectSeq(d2, LAMBDA r : r.logfoldchanges < log2fc_max.value)
              ELSE d2
        d4 == IF gene_symbols # None THEN JoinSymbols(d3, ad.var) ELSE d3
        d5 == IF store.has_pts THEN MergePts(d4, store.pts_index, "pct_nz_group")
              ELSE d4
        d6 == IF store.has_pts_rest
              THEN MergePts(d5, store.pts_rest_index, "pct_nz_reference")
              ELSE d5
    IN  IF \E i \in 1 .. Len(group) : group[i] \notin Range(StoredGroups)
            THEN RankRaise("KeyError")
        ELSE IF ~IsUnique(group) THEN RankRaise("ValueError")
        ELSE RankReturn(Len(group) # 1, d6)

\* the ranked features in their stored order, and adata.var with its alias
\* column
GeneSeq == [i \in 1 .. NumRanks |-> "g" \o ToString(i)]
GeneVar == [i \in 1 .. NumRanks |-> [name |-> GeneSeq[i], sym |-> "s" \o ToString(i)]]

\* the rankings a group may hold: every feature once
Rankings == {s \in SeqsOfLen(Genes, NumRanks) : IsUnique(s)}

\* the log fold changes of a group, rank by rank
FoldChanges == SeqsOfLen({0, 1}, NumRanks)

\* the adjusted p-values of a group: they grow with the rank
AdjustedPvals == [i \in 1 .. NumRanks |-> i - 1]

\* an optional cutoff: None or a number
NoCutoff == [given |-> FALSE, value |-> 0]
Cutoff(v) == [given |-> TRUE, value |-> v]

\* the group argument: None, one group name, or a list of group names
GroupArgs ==
    {[type |-> "NoneType", value |-> << >>]}
        \cup {[type |-> "str", value |-> <<g>>] : g \in Range(StoredGroups)}
        \cup {[type |-> "list", value |-> l] :
                l \in SeqsBetween(Range(StoredGroups), 1, Len(StoredGroups))}

RankCall(op, group, pval_cutoff, log2fc_min, log2fc_max, gene_symbols) ==
    [op |-> op, group |-> group, pval_cutoff |-> pval_cutoff,
     log2fc_min |-> log2fc_min, log2fc_max |-> log2fc_max,
     gene_symbols |-> gene_symbols]

RankInit ==
    /\ \E ranking \in Rankings, lfcA \in FoldChanges, lfcB \in FoldChanges,
          has_pts \in BOOLEAN, has_pts_rest \in BOOLEAN,
          pts_index \in {GeneSeq, Tail(GeneSeq)},
          var \in {GeneVar, GeneVar \o <<[name |-> "g1", sym |-> "s0"]>>} :
            /\ has_pts \/ pts_index = GeneSeq
            /\ adata =
                [uns |-> [names |-> [g \in Range(StoredGroups) |->
                                        IF g = "A" THEN GeneSeq ELSE ranking],
                          logfoldchanges |-> [g \in Range(StoredGroups) |->
                                        IF g = "A" THEN lfcA ELSE lfcB],
                          pvals_adj |-> [g \in Range(StoredGroups) |-> AdjustedPvals],
                          has_pts |-> has_pts, pts_index |-> pts_index,
                          has_pts_rest |-> has_pts_rest,
                          pts_rest_index |-> GeneSeq],
                 var |-> var]
    /\ call = RankCall("none", [type |-> "NoneType", value |-> << >>],
                       NoCutoff, NoCutoff, NoCutoff, None)
    /\ result = RankReturn(FALSE, << >>)

\* a call of rank_genes_groups_df, on a result not yet queried
RankGenesGroupsDfCall ==
    \E group \in GroupArgs, pval_cutoff \in {NoCutoff, Cutoff(1)},
       log2fc_min \in {NoCutoff, Cutoff(0)}, log2fc_max \in {NoCutoff, Cutoff(1)},
       gene_symbols \in GeneSymbolArgs :
        /\ call.op = "none"
        /\ call' = RankCall("rank_genes_groups_df", group, pval_cutoff,
                            log2fc_min, log2fc_max, gene_symbols)
        /\ result' = RankGenesGroupsDf(adata, group, pval_cutoff, log2fc_min,
                                       log2fc_max, gene_symbols)
        /\ UNCHANGED adata

RankNext == RankGenesGroupsDfCall

SpecRank == RankInit /\ [][RankNext]_vars

-----------------------------------------------------------------------------
(* Claims about the representation selector *)

\* the selectors of the last call
CallSelected(ad) == GetObsRep(ad, call.use_raw, call.layer, call.obsm, call.obsp)

\* how many of the four selectors the last call set (boolean use_raw)
SelectorsSet ==
    BoolSum(<<call.use_raw = PyTrue, call.layer # None, call.obsm # None,
              call.obsp # None>>)

\* d[k] as Python evaluates it
Lookup(d, k) == IF HasKey(d, k) THEN Return(d[k]) ELSE Raise("KeyError")

\* C5: _get_obs_rep returns X when no selector is set, the one selected array
\* when exactly one is set, fails its assertion when more than one is set,
\* and rejects a non-boolean use_raw with a TypeError whatever the other
\* selectors are.
C5_GetObsRepSelects ==
    call.op = "_get_obs_rep" =>
        IF ~IsInstanceBool(call.use_raw) THEN Raised(result, "TypeError")
        ELSE IF SelectorsSet = 0 THEN result = Return(adata.X)
        ELSE IF SelectorsSet > 1 THEN Raised(result, "AssertionError")
        ELSE IF call.use_raw = PyTrue THEN result = Return(adata.raw_X)
        ELSE IF call.layer # None THEN result = Lookup(adata.layers, call.layer)
        ELSE IF call.obsm # None THEN result = Lookup(adata.obsm, call.obsm)
        ELSE result = Lookup(adata.obsp, call.obsp)

\* C5 witness: a read of a stored layer returned that layer's array, which is
\* not the primary matrix
C5_Witness ==
    /\ call.op = "_get_obs_rep"
    /\ call.layer = "counts" /\ call.use_raw = PyFalse
    /\ call.obsm = None /\ call.obsp = None
    /\ result = Return(Array(1))
    /\ adata.X = Array(0)

\* the selector combinations _get_obs_rep accepts
ValidSelectors ==
    {s \in [use_raw : {PyTrue, PyFalse}, layer : LayerArgs, obsm : ObsmArgs,
            obsp : ObspArgs] :
        BoolSum(<<s.use_raw = PyTrue, s.layer # None, s.obsm # None,
                  s.obsp # None>>) <= 1}

ReadWith(ad, s) == GetObsRep(ad, s.use_raw, s.layer, s.obsm, s.obsp)

\* C6: _set_obs_rep fails exactly when _get_obs_rep fails with the same
\* selectors (non-boolean use_raw included); when it succeeds a read with the
\* same selectors returns the array written and a read with any other
\* selectors returns what it returned before the write; when it fails the
\* container is unchanged.
C6_SetMirrorsGet ==
    call.op = "_set_obs_rep" =>
        LET s == [use_raw |-> call.use_raw, layer |-> call.layer,
                  obsm |-> call.obsm, obsp |-> call.obsp]
            g == ReadWith(adata, s)
        IN  /\ Returned(result) <=> Returned(g)
            /\ Returned(result) =>
                /\ g = Return(call.val)
                /\ \A t \in ValidSelectors \ {s} :
                      Returned(ReadWith(call.before, t)) =>
                          ReadWith(adata, t) = ReadWith(call.before, t)
            /\ ~Returned(result) => adata = call.before

-----------------------------------------------------------------------------
(* Claims about obs_df *)

\* the feature axis an obs_df call reads: adata.raw's when use_raw is true
UsedVar == IF call.use_raw.truthy THEN adata.raw_var ELSE adata.var

\* the feature namespace an obs_df call searches: the alias column when
\* gene_symbols is given, the var names otherwise, of the matrix used
SearchedNames ==
    IF call.gene_symbols # None THEN VarSymbols(UsedVar) ELSE VarNames(UsedVar)

\* the array an obs_df call reads feature values from
UsedArray ==
    IF call.layer # None THEN adata.layers[call.layer]
    ELSE IF call.use_raw.truthy THEN adata.raw_X
    ELSE adata.X

\* the values a requested key stands for: the metadata column of that label,
\* or the column of the array used at the position of the feature so named
ValuesOfKey(key) ==
    IF key \in Range(adata.obs_columns)
    THEN [src |-> "obs",
          pos |-> CHOOSE p \in 0 .. Len(adata.obs_columns) - 1 :
                      adata.obs_columns[p + 1] = key]
    ELSE [src |-> UsedArray,
          pos |-> CHOOSE p \in 0 .. Len(UsedVar) - 1 : SearchedNames[p + 1] = key]

\* C1: an obs_df call without obsm_keys that returns yields a table whose
\* column labels are the requested keys, position by position and with their
\* repeats, each column holding the values of the key at its position.
C1_ColumnsAreRequestedKeys ==
    (call.op = "obs_df" /\ call.obsm_keys = << >> /\ Returned(result)) =>
        /\ Len(result.df) = Len(call.keys)
        /\ \A i \in 1 .. Len(call.keys) :
              /\ result.df[i].label = call.keys[i]
              /\ result.df[i].src = ValuesOfKey(call.keys[i]).src
              /\ result.df[i].pos = ValuesOfKey(call.keys[i]).pos

\* C1 witness: a returned table for a request that repeats a metadata key
\* around a feature key
C1_Witness ==
    /\ call.op = "obs_df" /\ Returned(result)
    /\ call.keys = <<"b", "c", "b">>
    /\ Labels(result.df) = <<"b", "c", "b">>
    /\ result.df[1].src = "obs" /\ result.df[2].src = "raw.X"

\* the requested keys found both among the obs columns and among the var
\* names of the matrix used
KeysInObsAndVarNames ==
    {k \in Range(call.keys) :
        k \in Range(adata.obs_columns) /\ k \in Range(VarNames(UsedVar))}

\* the requested keys found both among the obs columns and in the feature
\* namespace searched
AmbiguousKeys ==
    {k \in Range(call.keys) :
        k \in Range(adata.obs_columns) /\ k \in Range(SearchedNames)}

\* the requested keys that are no obs column and match several entries of the
\* feature namespace searched
DuplicatedMatchKeys ==
    {k \in Range(call.keys) :
        /\ k \notin Range(adata.obs_columns)
        /\ Cardinality(PositionsOf(SearchedNames, k)) > 1}

\* the requested keys found in neither namespace
UnresolvedKeys ==
    {k \in Range(call.keys) :
        k \notin Range(adata.obs_columns) /\ k \notin Range(SearchedNames)}

\* the checks obs_df makes before it looks at a key all pass
EarlyChecksPass ==
    /\ ~(call.use_raw.truthy /\ call.layer # None)
    /\ IsUnique(adata.obs_columns)
    /\ IsUnique(VarNames(adata.var))

\* the first key of a set in sorted order
FirstKey(S) == Head(SelectSeq(NameOrder, LAMBDA n : n \in S))

\* C2 as claimed: a requested key that is both an obs column and a feature
\* name of the matrix always makes obs_df raise the ambiguous-key error,
\* whatever use_raw, layer and gene_symbols are.
C2_AmbiguousAlwaysRaises ==
    (call.op = "obs_df" /\ KeysInObsAndVarNames # {}) =>
        (Raised(result, "KeyError") /\ result.what = "ambiguous")

\* C2 as amended: a requested key that is both an obs column and in the
\* feature namespace searched (the alias column when gene_symbols is given,
\* the var names otherwise, of the matrix used) is never silently resolved:
\* no table is returned, and the error is the ambiguous-key error naming the
\* first such key in sorted order unless an earlier check fails (use_raw with
\* a layer, duplicated obs columns, duplicated adata.var_names) or a key
\* sorting before it matches several entries of the namespace searched.
C2_AmbiguousNeverResolved ==
    (call.op = "obs_df" /\ AmbiguousKeys # {}) =>
        /\ ~Returned(result)
        /\ (/\ EarlyChecksPass
            /\ \A k \in DuplicatedMatchKeys :
                  FirstKey({k, FirstKey(AmbiguousKeys)}) # k)
            => (/\ Raised(result, "KeyError") /\ result.what = "ambiguous"
                /\ result.keys = <<FirstKey(AmbiguousKeys)>>)

\* C2 witness: with gene_symbols given, a key that is an obs column and an
\* entry of the alias column, but no var name, raised the ambiguous-key error
C2_Witness ==
    /\ call.op = "obs_df" /\ call.gene_symbols # None
    /\ "b" \in AmbiguousKeys /\ "b" \notin Range(VarNames(UsedVar))
    /\ result.what = "ambiguous" /\ result.keys = <<"b">>

\* C3: for a call that passes the two checks made before it (no layer with
\* use_raw, unique obs columns), obs_df raises the duplicated-var-names
\* error exactly when the feature names of the matrix it uses (adata.raw's
\* when use_raw is true) hold a duplicate.
C3_DuplicateFeatureNamesOfUsedMatrix ==
    (/\ call.op = "obs_df"
     /\ ~(call.use_raw.truthy /\ call.layer # None)
     /\ IsUnique(adata.obs_columns)) =>
        ((Raised(result, "ValueError") /\ result.what = "duplicated var names")
            <=> ~IsUnique(VarNames(UsedVar)))

\* C4 as claimed: whenever a requested key is found in neither namespace,
\* obs_df raises the unresolved-key error listing every distinct unresolved
\* key once.
C4_UnresolvedAlwaysListed ==
    (call.op = "obs_df" /\ UnresolvedKeys # {}) =>
        /\ Raised(result, "KeyError") /\ result.what = "not found"
        /\ Range(result.keys) = UnresolvedKeys
        /\ IsUnique(result.keys)

\* C4 as amended: whenever a requested key is found in neither namespace no
\* table is returned, and unless an earlier check fails (use_raw with a
\* layer, duplicated obs columns, duplicated adata.var_names, an ambiguous
\* key, a key matching several entries of the namespace searched) the error
\* is the unresolved-key error, listing every distinct unresolved key once,
\* in sorted order, and naming the namespace searched.
C4_UnresolvedListedUnlessEarlierError ==
    (call.op = "obs_df" /\ UnresolvedKeys # {}) =>
        /\ ~Returned(result)
        /\ (EarlyChecksPass /\ AmbiguousKeys = {} /\ DuplicatedMatchKeys = {})
            => (/\ Raised(result, "KeyError") /\ result.what = "not found"
                /\ result.keys = SelectSeq(NameOrder, LAMBDA n : n \in UnresolvedKeys)
                /\ result.searched = GeneError(call.use_raw, call.gene_symbols))

\* C4 witness: two distinct unresolved keys, one of them requested twice,
\* were reported once each
C4_Witness ==
    /\ call.op = "obs_df"
    /\ call.keys = <<"c", "a", "c">>
    /\ UnresolvedKeys = {"a", "c"}
    /\ result.what = "not found" /\ result.keys = <<"a", "c">>

\* strictly ascending
IsAscending(v) == \A i \in 1 .. Len(v) - 1 : v[i] < v[i + 1]

\* the permutations of a sequence
Reorderings(s) ==
    {p \in SeqsOfLen(Range(s), Len(s)) :
        \A x \in Range(s) :
            Cardinality(PositionsOf(p, x)) = Cardinality(PositionsOf(s, x))}

\* C9: on a backed container obs_df indexes the backing array with feature
\* positions in ascending order only, the block it puts back in order equals
\* the block direct indexing with the resolved positions gives, and the same
\* keys requested in any other order get the same values, key for key.
C9_BackedFetchSortedAndRestored ==
    (call.op = "obs_df" /\ adata.isbacked /\ Returned(result)) =>
        /\ IsAscending(result.fetched)
        /\ result.matrix = IndexColumns(UsedArray, result.var_idx)
        /\ \A p \in Reorderings(call.keys) :
              LET other == ObsDf(adata, p, << >>, call.layer, call.gene_symbols,
                                 call.use_raw)
              IN  /\ Returned(other)
                  /\ \A i, j \in 1 .. Len(p) :
                        call.keys[i] = p[j] => result.df[i] = other.df[j]

\* C9 witness: three features resolved to positions that are a cyclic shift
\* of ascending order were fetched in ascending order from a backed container
C9_Witness ==
    /\ call.op = "obs_df" /\ adata.isbacked /\ Returned(result)
    /\ result.var_idx = <<1, 2, 0>>
    /\ result.fetched = <<0, 1, 2>>
    /\ call.keys = <<"c", "a", "b">>

\* the label of each (obsm key, column index) pair
RECURSIVE ObsmLabels(_)
ObsmLabels(obsm_keys) ==
    IF obsm_keys = << >> THEN << >>
    ELSE <<Head(obsm_keys)[1] \o "-" \o ToString(Head(obsm_keys)[2])>>
            \o ObsmLabels(Tail(obsm_keys))

\* C10: an obs_df call that returns yields the requested keys, in order and
\* with their repeats, followed by one column per pair of obsm_keys in call
\* order, labelled "{block name}-{index}": len(keys) + len(obsm_keys) columns.
C10_KeysThenOneColumnPerObsmPair ==
    (call.op = "obs_df" /\ Returned(result)) =>
        /\ Len(result.df) = Len(call.keys) + Len(call.obsm_keys)
        /\ Labels(result.df) = call.keys \o ObsmLabels(call.obsm_keys)

-----------------------------------------------------------------------------
(* Claims about var_df *)

\* C7: var_df applies obs_df's uniqueness rules (it raises when the var
\* metadata columns or the observation names are duplicated), so that a
\* var_df call that returns yields one column per requested key, labelled
\* with the requested keys in the requested order.
C7_VarDfColumnsAreRequestedKeys ==
    (call.op = "var_df" /\ call.varm_keys = << >> /\ Returned(result)) =>
        /\ Len(result.df) = Len(call.keys)
        /\ Labels(result.df) = call.keys

-----------------------------------------------------------------------------
(* Claims about rank_genes_groups_df *)

\* the position of a group in the list the caller requested
RequestedPosition(g) == CategoryCode(call.group.value, g)

\* C8: with two or more groups requested, whatever filters and joins are
\* asked for, the rows come group by group in the order the caller listed
\* the groups, and within a group in ascending original rank.
C8_RowsInRequestedGroupOrder ==
    (/\ call.op = "rank_genes_groups_df" /\ Returned(result)
     /\ call.group.type = "list" /\ Len(call.group.value) >= 2) =>
        \A i, j \in 1 .. Len(result.rows) :
            i < j =>
                LET a == result.rows[i]
                    b == result.rows[j]
                IN  /\ RequestedPosition(a.group) <= RequestedPosition(b.group)
                    /\ a.group = b.group => a.level_0 <= b.level_0

\* C8 witness: groups requested as ["B", "A"], with a fold-change filter that
\* dropped a row, the alias join and both statistics joins: rows of "B" came
\* first, then rows of "A", two of one group in rank order
C8_Witness ==
    /\ call.op = "rank_genes_groups_df" /\ Returned(result)
    /\ call.group.value = <<"B", "A">>
    /\ call.log2fc_min.given /\ call.gene_symbols # None
    /\ adata.uns.has_pts /\ adata.uns.has_pts_rest
    /\ Len(result.rows) = 3
    /\ result.rows[1].group = "B" /\ result.rows[3].group = "A"
    /\ result.rows[2].level_0 < result.rows[3].level_0

====
